---- MODULE Spec2Model ----
(***************************************************************************)
(* A model of the substrate writer of the bridge relayer                   *)
(* (chains/substrate/writer.go): ResolveMessage with its repeat gate, the   *)
(* per-message coordinator goroutine, redeemTx with the round-robin turn    *)
(* rule and the multisig record scan, isFinish, submitTx and getRound.      *)
(*                                                                         *)
(* Go indexes m.Payload from 0; the tuples here are indexed from 1, so      *)
(* m.Payload[0] (amount bytes) is Payload[1] and m.Payload[1] (recipient)   *)
(* is Payload[2].                                                          *)
(***************************************************************************)
EXTENDS Integers, Sequences, FiniteSets, TLC

(***************************************************************************)
(* Bounds of the model.                                                    *)
(***************************************************************************)
\* number of ResolveMessage calls made on the writer
MaxCalls == 2
\* the finalized height is kept modulo TotalRelayers * MaxEpochs
MaxEpochs == 1
\* how far below zero submitTx's retry counter is followed
MaxSubmitOverrun == 1
\* bytes of an account id (32 in the chain library; short here)
AccountLen == 2
\* approvals of a record and signatories of an approval fed to the tracker
MaxApprovals == 2
MaxSignatories == 2

(***************************************************************************)
(* Program constants.                                                      *)
(***************************************************************************)
oneKSM == 1000000
oneDOT == 100000000
\* oneXBTC = onePCX = 10000000000 = oneXRoot * oneXRoot; the product does not
\* fit the checker's integers, so a division by it is done in two exact steps
oneXRoot == 100000
\* configuration and constants whose values are set outside this file
BlockRetryLimit == 3
FixedDOTFee == 2
FixedKSMFee == 3
FeeRate == 5
\* relayer identity and weight handed to NewWriter
TotalRelayers == 3
CurrentRelayer == 1
ConfiguredMaxWeight == 7
PublicKey == <<10, 1>>

Polkadot == "Polkadot"
Kusama == "Kusama"
ChainXBTC == "ChainXBTC"
ChainXPCX == "ChainXPCX"
OtherChain == "OtherChain"

(***************************************************************************)
(* The sentinel results of redeemTx and isFinish. Real multisig            *)
(* transactions have block numbers >= 0.                                   *)
(***************************************************************************)
NotExecuted == [BlockNumber |-> -1, MultiSignTxId |-> 0]
YesVoted == [BlockNumber |-> -1, MultiSignTxId |-> 1]
AmountError == [BlockNumber |-> -2, MultiSignTxId |-> 0]

(***************************************************************************)
(* Conversions.                                                            *)
(***************************************************************************)
\* big.Int.SetBytes: big-endian unsigned
RECURSIVE SetBytes(_)
SetBytes(b) ==
    IF Len(b) = 0 THEN 0
    ELSE 256 * SetBytes(SubSeq(b, 1, Len(b) - 1)) + b[Len(b)]

\* big.Int.String for n >= 0: decimal digits, most significant first
RECURSIVE Digits(_)
Digits(n) ==
    IF n < 10 THEN <<n>> ELSE Digits(n \div 10) \o <<n % 10>>

\* big.Int.String; the character "-" is written 10
IntString(n) ==
    IF n < 0 THEN <<10>> \o Digits(0 - n) ELSE Digits(n)

\* types.NewAccountID: copy into a fixed array, zero padded, excess dropped
NewAccountID(b) ==
    [i \in 1..AccountLen |-> IF i <= Len(b) THEN b[i] ELSE 0]

\* types.NewAddressFromAccountID
NewAddressFromAccountID(b) ==
    [IsAccountID |-> TRUE, AsAccountID |-> NewAccountID(b)]

\* utils.BytesToHex: two hex digits (0..15) per byte
RECURSIVE BytesToHex(_)
BytesToHex(b) ==
    IF Len(b) = 0 THEN <<>>
    ELSE <<b[1] \div 16, b[1] % 16>> \o BytesToHex(Tail(b))

\* hex digits to bytes, for an even number of valid digits
RECURSIVE HexBytes(_)
HexBytes(h) ==
    IF Len(h) = 0 THEN <<>>
    ELSE <<16 * h[1] + h[2]>> \o HexBytes(Tail(Tail(h)))

\* types.NewAddressFromHexAccountID: a character that is no hex digit (written
\* as a value above 15) fails the decoding and gives the zero Address; an odd
\* number of digits is padded with a leading 0
NewAddressFromHexAccountID(h) ==
    IF \E i \in 1..Len(h) : h[i] > 15
    THEN [IsAccountID |-> FALSE, AsAccountID |-> NewAccountID(<<>>)]
    ELSE NewAddressFromAccountID(
             HexBytes(IF Len(h) % 2 = 1 THEN <<0>> \o h ELSE h))

(***************************************************************************)
(* Inputs: the messages handed to ResolveMessage and the records the       *)
(* listener may put into its table.                                        *)
(***************************************************************************)
\* amount bytes (big-endian): 10^9, 2*10^8, 10^8 wrapped units, 7*10^6, 10^6
Amt1000M == <<59, 154, 202, 0>>
Amt200M == <<11, 235, 194, 0>>
Amt100M == <<5, 245, 225, 0>>
Amt7M == <<106, 207, 192>>
Amt1M == <<15, 66, 64>>
\* recipient account bytes
Rcp1 == <<1>>
Rcp2 == <<2>>

Message(n, d, a, r) ==
    [DepositNonce |-> n, Destination |-> d, Payload |-> <<a, r>>]

Msgs ==
    { Message(1, Polkadot, Amt1000M, Rcp1),
      Message(3, Polkadot, Amt100M, Rcp1),
      Message(4, Polkadot, Amt200M, Rcp2),
      Message(5, Kusama, Amt7M, Rcp1),
      Message(6, Kusama, Amt1M, Rcp1),
      Message(7, ChainXBTC, Amt100M, Rcp1),
      Message(8, OtherChain, Amt100M, Rcp1) }

ChainIds == {Polkadot, Kusama, ChainXBTC, OtherChain}

\* keys of the listener's table: (block number, extrinsic index)
Tx1 == [BlockNumber |-> 5, MultiSignTxId |-> 1]
Tx2 == [BlockNumber |-> 8, MultiSignTxId |-> 0]
TxIds == {Tx1, Tx2}

\* signatory lists (hex account ids) of the approvals of a record
SelfHex == BytesToHex(NewAccountID(PublicKey))
PeerHex == BytesToHex(NewAccountID(<<11, 2>>))
\* a string that is no hex account id
BadHex == <<0, 10, 16, 1>>
OthersChoices ==
    { <<>>, <<<<SelfHex>>>>, <<<<PeerHex>>>> }

\* what a new record may carry: the address and actual amount of the redeem of
\* the Polkadot message of nonce 1, and those of the Kusama message of nonce 5
RecordTargets ==
    { [DestAddress |-> BytesToHex(NewAccountID(Rcp1)), DestAmount |-> <<6>>],
      [DestAddress |-> BytesToHex(NewAccountID(Rcp1)), DestAmount |-> <<3>>] }

Calls == 1..MaxCalls

VARIABLES
    chainId,        \* w.listener.chainId
    messages,       \* w.messages: the set of keys of the map
    msTxAsMulti,    \* w.listener.msTxAsMulti: the records, each under its OriginMsTx
    height,         \* finalized block height of the destination chain
    pc,             \* where each ResolveMessage call / its goroutine stands
    msg,            \* the message of each call
    retryTimes,     \* the goroutine's retryTimes
    subRetry,       \* submitTx's retryTimes
    result,         \* what redeemTx returned: (isFinished, currentTx)
    submitted,      \* the calls made to submitTx
    crashed,        \* the process has panicked
    fnIn,           \* a record handed to the tracker on its own
    fnOut           \* what the tracker made of it

vars == <<chainId, messages, msTxAsMulti, height, pc, msg, retryTimes,
          subRetry, result, submitted, crashed, fnIn, fnOut>>

NoMsg == Message(0, OtherChain, <<>>, <<>>)
NoResult == [isFinished |-> FALSE, currentTx |-> NotExecuted]
NoRecord ==
    [OriginMsTx |-> Tx1, DestAddress |-> <<>>, DestAmount |-> <<>>,
     Executed |-> FALSE, Others |-> <<>>]

Init ==
    /\ chainId \in ChainIds
    /\ messages = {}
    /\ msTxAsMulti = {}
    /\ height \in 0..(TotalRelayers * MaxEpochs - 1)
    /\ pc = [c \in Calls |-> "idle"]
    /\ msg = [c \in Calls |-> NoMsg]
    /\ retryTimes = [c \in Calls |-> 0]
    /\ subRetry = [c \in Calls |-> 0]
    /\ result = [c \in Calls |-> NoResult]
    /\ submitted = {}
    /\ crashed = FALSE
    /\ fnIn = NoRecord
    /\ fnOut = <<>>

(***************************************************************************)
(* ResolveMessage and checkRepeat.                                         *)
(***************************************************************************)
Dest(m) ==
    [DepositNonce |-> m.DepositNonce,
     DestAddress |-> m.Payload[2],
     DestAmount |-> m.Payload[1]]

\* the scan of checkRepeat over w.messages
isRepeat(m) ==
    \E dest \in messages :
        /\ dest.DepositNonce # m.DepositNonce
        /\ dest.DestAmount = m.Payload[1]
        /\ dest.DestAddress = m.Payload[2]

\* a caller invokes ResolveMessage(m); the calls are numbered in the order
\* they are made
ResolveMessage(c, m) ==
    /\ ~crashed
    /\ pc[c] = "idle"
    /\ \A d \in Calls : d < c => pc[d] # "idle"
    /\ pc' = [pc EXCEPT ![c] = "checkRepeat"]
    /\ msg' = [msg EXCEPT ![c] = m]
    /\ UNCHANGED <<chainId, messages, msTxAsMulti, height, retryTimes,
                   subRetry, result, submitted, crashed, fnIn, fnOut>>

\* one round of checkRepeat's loop: scan, then sleep or leave
checkRepeat(c) ==
    /\ ~crashed
    /\ pc[c] = "checkRepeat"
    /\ pc' = [pc EXCEPT ![c] = IF isRepeat(msg[c]) THEN "checkRepeat" ELSE "gated"]
    /\ UNCHANGED <<chainId, messages, msTxAsMulti, height, msg, retryTimes,
                   subRetry, result, submitted, crashed, fnIn, fnOut>>

\* after checkRepeat: the destination test
NotMine(c) ==
    /\ ~crashed
    /\ pc[c] = "gated"
    /\ msg[c].Destination # chainId
    /\ pc' = [pc EXCEPT ![c] = "notMine"]
    /\ UNCHANGED <<chainId, messages, msTxAsMulti, height, msg, retryTimes,
                   subRetry, result, submitted, crashed, fnIn, fnOut>>

\* the insert into w.messages and the start of the goroutine
Accept(c) ==
    /\ ~crashed
    /\ pc[c] = "gated"
    /\ msg[c].Destination = chainId
    /\ messages' = messages \cup {Dest(msg[c])}
    /\ retryTimes' = [retryTimes EXCEPT ![c] = BlockRetryLimit]
    /\ pc' = [pc EXCEPT ![c] = "loop"]
    /\ UNCHANGED <<chainId, msTxAsMulti, height, msg, subRetry, result,
                   submitted, crashed, fnIn, fnOut>>

(***************************************************************************)
(* redeemTx: the amount, the inner call, the turn and the record scan.     *)
(***************************************************************************)
\* actualAmount as redeemTx computes it from the amount bytes
actualAmount(m) ==
    LET amount == SetBytes(m.Payload[1]) IN
    IF m.Destination = Polkadot THEN
        LET receiveAmount == amount \div oneDOT
            fee == FixedDOTFee + (receiveAmount \div FeeRate)
        IN  receiveAmount - fee
    ELSE IF m.Destination = Kusama THEN
        LET receiveAmount == amount \div oneKSM
            fee == FixedKSMFee + (receiveAmount \div FeeRate)
        IN  receiveAmount - fee
    ELSE IF m.Destination \in {ChainXBTC, ChainXPCX} THEN
        (amount \div oneXRoot) \div oneXRoot
    ELSE 0

\* mutant: the Kusama branch forgets its test of the sign
isAmountError_PolkadotOnly(m) ==
    /\ m.Destination \in {Polkadot, ChainXBTC, ChainXPCX}
    /\ actualAmount(m) < 0

\* the test that makes redeemTx return (true, AmountError)
isAmountError(m) ==
    /\ m.Destination \in {Polkadot, Kusama, ChainXBTC, ChainXPCX}
    /\ actualAmount(m) < 0

\* the inner call c; for a destination of no branch it stays the zero Call
innerCall(m) ==
    IF m.Destination \in {Polkadot, Kusama, ChainXPCX} THEN
        [Method |-> "Balances.transfer_keep_alive",
         Recipient |-> NewAccountID(m.Payload[2]),
         Amount |-> actualAmount(m)]
    ELSE IF m.Destination = ChainXBTC THEN
        [Method |-> "XAssets.transfer",
         Recipient |-> NewAccountID(m.Payload[2]),
         Amount |-> actualAmount(m)]
    ELSE [Method |-> "", Recipient |-> NewAccountID(<<>>), Amount |-> 0]

\* mutant: the relayer's index is left out of the turn
processRound_NoRelayer(m) ==
    m.DepositNonce % TotalRelayers

\* processRound of redeemTx
processRound(m) ==
    (CurrentRelayer + m.DepositNonce) % TotalRelayers

\* getRound's blockRound for a finalized height h
blockRound(h) ==
    h % TotalRelayers

\* the test on isVote inside isFinish: no signatory of the list is this relayer
isVote(others) ==
    ~ \E i \in 1..Len(others) :
          NewAddressFromHexAccountID(others[i]) = NewAddressFromAccountID(PublicKey)

\* mutant: the executed flag is not looked at
isFinish_IgnoreExecuted(ms) ==
    IF \E i \in 1..Len(ms.Others) : isVote(ms.Others[i])
    THEN [isFinished |-> TRUE, currentTx |-> YesVoted]
    ELSE [isFinished |-> FALSE, currentTx |-> NotExecuted]

\* mutant: YesVoted when no approval list at all contains this relayer
isFinish_NoneContains(ms) ==
    IF ms.Executed
    THEN [isFinished |-> TRUE, currentTx |-> ms.OriginMsTx]
    ELSE IF \A i \in 1..Len(ms.Others) : isVote(ms.Others[i])
    THEN [isFinished |-> TRUE, currentTx |-> YesVoted]
    ELSE [isFinished |-> FALSE, currentTx |-> NotExecuted]

\* isFinish(ms): (finished, tx)
isFinish(ms) ==
    IF ms.Executed
    THEN [isFinished |-> TRUE, currentTx |-> ms.OriginMsTx]
    ELSE IF \E i \in 1..Len(ms.Others) : isVote(ms.Others[i])
    THEN [isFinished |-> TRUE, currentTx |-> YesVoted]
    ELSE [isFinished |-> FALSE, currentTx |-> NotExecuted]

\* mutant: the amount is not compared
matches_AddressOnly(m) ==
    { ms \in msTxAsMulti :
        ms.DestAddress = BytesToHex(NewAddressFromAccountID(m.Payload[2]).AsAccountID) }

\* the records the scan of redeemTx validates for m
matches(m) ==
    { ms \in msTxAsMulti :
        /\ ms.DestAddress = BytesToHex(NewAddressFromAccountID(m.Payload[2]).AsAccountID)
        /\ ms.DestAmount = IntString(actualAmount(m)) }

\* the timepoint and weight taken from a validated, unfinished record
approveTimePoint(ms) ==
    <<ms.OriginMsTx.BlockNumber, ms.OriginMsTx.MultiSignTxId>>

\* mutant: the weight stays 0 on the approve path
approveWeight_Zero(ms) ==
    0

approveWeight(ms) ==
    ConfiguredMaxWeight

\* maybeTimePoint = []byte{} and maxWeight = types.Weight(0) when nothing matched
initiateTimePoint == <<>>
initiateWeight == 0

\* the body of the scan for a validated record: return what isFinish found, or
\* take the record's timepoint and the configured weight and stop scanning
scanRecord(ms) ==
    IF isFinish(ms).isFinished
    THEN [return |-> TRUE, result |-> isFinish(ms),
          timePoint |-> initiateTimePoint, maxWeight |-> initiateWeight]
    ELSE [return |-> FALSE, result |-> isFinish(ms),
          timePoint |-> approveTimePoint(ms), maxWeight |-> approveWeight(ms)]

\* the multisig call handed to submitTx: by which goroutine, in which of its
\* attempts, in the round of which height, and with what
multiCall(c, h, timePoint, maxWeight) ==
    [call |-> c, retry |-> retryTimes[c], nonce |-> msg[c].DepositNonce,
     height |-> h, timePoint |-> timePoint, maxWeight |-> maxWeight,
     inner |-> innerCall(msg[c])]

\* top of the goroutine's loop
LoopTop(c) ==
    /\ ~crashed
    /\ pc[c] = "loop"
    /\ retryTimes' = [retryTimes EXCEPT ![c] = retryTimes[c] - 1]
    /\ pc' = [pc EXCEPT ![c] = IF retryTimes[c] - 1 = 0 THEN "finished" ELSE "redeemTx"]
    /\ UNCHANGED <<chainId, messages, msTxAsMulti, height, msg, subRetry,
                   result, submitted, crashed, fnIn, fnOut>>

\* redeemTx up to its turn loop: the amount and the inner call
RedeemBuild(c) ==
    /\ ~crashed
    /\ pc[c] = "redeemTx"
    /\ IF isAmountError(msg[c])
       THEN /\ result' = [result EXCEPT ![c] =
                            [isFinished |-> TRUE, currentTx |-> AmountError]]
            /\ pc' = [pc EXCEPT ![c] = "returned"]
       ELSE /\ result' = result
            /\ pc' = [pc EXCEPT ![c] = "waitRound"]
    /\ UNCHANGED <<chainId, messages, msTxAsMulti, height, msg, retryTimes,
                   subRetry, submitted, crashed, fnIn, fnOut>>

\* the turn loop when the round read is not this relayer's: sleep
RoundOver(c) ==
    /\ ~crashed
    /\ pc[c] = "waitRound"
    /\ blockRound(height) # processRound(msg[c])
    /\ UNCHANGED vars

\* on the turn, the scan meets a validated record that isFinish reports finished
ScanFinished(c) ==
    /\ ~crashed
    /\ pc[c] = "waitRound"
    /\ blockRound(height) = processRound(msg[c])
    /\ \E ms \in matches(msg[c]) :
          /\ scanRecord(ms).return
          /\ result' = [result EXCEPT ![c] = scanRecord(ms).result]
    /\ pc' = [pc EXCEPT ![c] = "returned"]
    /\ UNCHANGED <<chainId, messages, msTxAsMulti, height, msg, retryTimes,
                   subRetry, submitted, crashed, fnIn, fnOut>>

\* on the turn, the scan meets a validated record that is not finished: approve
ScanApprove(c) ==
    /\ ~crashed
    /\ pc[c] = "waitRound"
    /\ blockRound(height) = processRound(msg[c])
    /\ \E ms \in matches(msg[c]) :
          /\ ~scanRecord(ms).return
          /\ submitted' = submitted \cup
                {multiCall(c, height, scanRecord(ms).timePoint,
                           scanRecord(ms).maxWeight)}
    /\ subRetry' = [subRetry EXCEPT ![c] = BlockRetryLimit]
    /\ pc' = [pc EXCEPT ![c] = "submitTx"]
    /\ UNCHANGED <<chainId, messages, msTxAsMulti, height, msg, retryTimes,
                   result, crashed, fnIn, fnOut>>

\* on the turn, no record is validated (or the table is empty): initiate
ScanInitiate(c) ==
    /\ ~crashed
    /\ pc[c] = "waitRound"
    /\ blockRound(height) = processRound(msg[c])
    /\ matches(msg[c]) = {}
    /\ submitted' = submitted \cup
          {multiCall(c, height, initiateTimePoint, initiateWeight)}
    /\ subRetry' = [subRetry EXCEPT ![c] = BlockRetryLimit]
    /\ pc' = [pc EXCEPT ![c] = "submitTx"]
    /\ UNCHANGED <<chainId, messages, msTxAsMulti, height, msg, retryTimes,
                   result, crashed, fnIn, fnOut>>

\* getRound when the finalized head or header cannot be fetched: the header is
\* nil and reading its Number panics
GetRoundFail(c) ==
    /\ ~crashed
    /\ pc[c] = "waitRound"
    /\ crashed' = TRUE
    /\ UNCHANGED <<chainId, messages, msTxAsMulti, height, pc, msg, retryTimes,
                   subRetry, result, submitted, fnIn, fnOut>>

(***************************************************************************)
(* submitTx.                                                               *)
(***************************************************************************)
\* a fetch of metadata, genesis hash, runtime version or account storage
\* fails: retryTimes-- and continue
SubmitFetchFail(c) ==
    /\ ~crashed
    /\ pc[c] = "submitTx"
    /\ subRetry[c] > 0 - MaxSubmitOverrun
    /\ subRetry' = [subRetry EXCEPT ![c] = subRetry[c] - 1]
    /\ UNCHANGED <<chainId, messages, msTxAsMulti, height, pc, msg, retryTimes,
                   result, submitted, crashed, fnIn, fnOut>>

\* the fetches succeed: sign, SubmitAndWatchExtrinsic, break; submitTx's
\* retryTimes goes out of scope and redeemTx returns (false, NotExecuted)
SubmitSend(c) ==
    /\ ~crashed
    /\ pc[c] = "submitTx"
    /\ result' = [result EXCEPT ![c] =
                     [isFinished |-> FALSE, currentTx |-> NotExecuted]]
    /\ subRetry' = [subRetry EXCEPT ![c] = 0]
    /\ pc' = [pc EXCEPT ![c] = "returned"]
    /\ UNCHANGED <<chainId, messages, msTxAsMulti, height, msg, retryTimes,
                   submitted, crashed, fnIn, fnOut>>

(***************************************************************************)
(* The goroutine after redeemTx has returned.                              *)
(***************************************************************************)
\* mutant: deleting under a sentinel key empties the table
deleteMsTx_SentinelClears(tx) ==
    IF tx = AmountError THEN {}
    ELSE { ms \in msTxAsMulti : ms.OriginMsTx # tx }

\* delete(w.listener.msTxAsMulti, tx)
deleteMsTx(tx) ==
    { ms \in msTxAsMulti : ms.OriginMsTx # tx }

\* whether the goroutine leaves its loop on this result
isTerminal(r) ==
    /\ r.isFinished
    /\ \/ r.currentTx = AmountError
       \/ r.currentTx \notin {YesVoted, NotExecuted, AmountError}

\* redeemTx returned a terminal result: delete the record and the message
Finish(c) ==
    /\ ~crashed
    /\ pc[c] = "returned"
    /\ isTerminal(result[c])
    /\ msTxAsMulti' = deleteMsTx(result[c].currentTx)
    /\ messages' = messages \ {Dest(msg[c])}
    /\ pc' = [pc EXCEPT ![c] = "finished"]
    /\ UNCHANGED <<chainId, height, msg, retryTimes, subRetry, result,
                   submitted, crashed, fnIn, fnOut>>

\* redeemTx returned NotExecuted or YesVoted: (sleep and) go round the loop;
\* isFinished and currentTx are the iteration's own and end with it
Again(c) ==
    /\ ~crashed
    /\ pc[c] = "returned"
    /\ ~isTerminal(result[c])
    /\ result' = [result EXCEPT ![c] = NoResult]
    /\ pc' = [pc EXCEPT ![c] = "loop"]
    /\ UNCHANGED <<chainId, messages, msTxAsMulti, height, msg, retryTimes,
                   subRetry, submitted, crashed, fnIn, fnOut>>

(***************************************************************************)
(* The environment: the listener's table and the destination chain.        *)
(***************************************************************************)
\* the listener sees a new multisig extrinsic
ListenerNew(tx, target, others) ==
    /\ ~crashed
    /\ \A ms \in msTxAsMulti : ms.OriginMsTx # tx
    /\ msTxAsMulti' = msTxAsMulti \cup
          {[OriginMsTx |-> tx, DestAddress |-> target.DestAddress,
            DestAmount |-> target.DestAmount, Executed |-> FALSE,
            Others |-> others]}
    /\ UNCHANGED <<chainId, messages, height, pc, msg, retryTimes, subRetry,
                   result, submitted, crashed, fnIn, fnOut>>

\* the listener sees the multisig executed
ListenerExecuted(tx) ==
    /\ ~crashed
    /\ \E ms \in msTxAsMulti :
          /\ ms.OriginMsTx = tx
          /\ ~ms.Executed
          /\ msTxAsMulti' = (msTxAsMulti \ {ms}) \cup {[ms EXCEPT !.Executed = TRUE]}
    /\ UNCHANGED <<chainId, messages, height, pc, msg, retryTimes, subRetry,
                   result, submitted, crashed, fnIn, fnOut>>

\* a block is finalized
Tick ==
    /\ ~crashed
    /\ height' = (height + 1) % (TotalRelayers * MaxEpochs)
    /\ UNCHANGED <<chainId, messages, msTxAsMulti, pc, msg, retryTimes,
                   subRetry, result, submitted, crashed, fnIn, fnOut>>

\* the steps of call c and of its goroutine
Step(c) ==
    \/ checkRepeat(c)
    \/ NotMine(c)
    \/ Accept(c)
    \/ LoopTop(c)
    \/ RedeemBuild(c)
    \/ RoundOver(c)
    \/ ScanFinished(c)
    \/ ScanApprove(c)
    \/ ScanInitiate(c)
    \/ GetRoundFail(c)
    \/ SubmitFetchFail(c)
    \/ SubmitSend(c)
    \/ Finish(c)
    \/ Again(c)

(***************************************************************************)
(* Spec: MaxCalls calls of ResolveMessage running concurrently on a         *)
(* Polkadot writer, with one multisig record of the listener.              *)
(***************************************************************************)
GateMsgs ==
    { Message(1, Polkadot, Amt1000M, Rcp1),
      Message(2, Polkadot, Amt1000M, Rcp1),
      Message(3, Polkadot, Amt100M, Rcp1),
      Message(5, Kusama, Amt7M, Rcp1) }

GateTarget == [DestAddress |-> BytesToHex(NewAccountID(Rcp1)), DestAmount |-> <<6>>]

GateInit ==
    /\ Init
    /\ chainId = Polkadot

Next ==
    \/ \E c \in Calls, m \in GateMsgs : ResolveMessage(c, m)
    \/ \E c \in Calls : Step(c)
    \/ \E o \in OthersChoices : ListenerNew(Tx1, GateTarget, o)
    \/ ListenerExecuted(Tx1)
    \/ Tick

Spec == GateInit /\ [][Next]_vars

(***************************************************************************)
(* ScanSpec: one call of ResolveMessage on a writer of any chain, with the *)
(* listener's table taking every shape.                                    *)
(***************************************************************************)
ScanNext ==
    \/ \E m \in Msgs : ResolveMessage(1, m)
    \/ Step(1)
    \/ \E tx \in TxIds, t \in RecordTargets, o \in OthersChoices : ListenerNew(tx, t, o)
    \/ \E tx \in TxIds : ListenerExecuted(tx)
    \/ Tick

ScanSpec == Init /\ [][ScanNext]_vars

(***************************************************************************)
(* TrackerSpec: the scan body and isFinish applied to one record of any    *)
(* shape.                                                                  *)
(***************************************************************************)
Signatories == {SelfHex, PeerHex, BadHex}

RECURSIVE SeqsUpTo(_, _)
SeqsUpTo(S, n) ==
    IF n = 0 THEN {<<>>}
    ELSE LET shorter == SeqsUpTo(S, n - 1)
         IN  shorter \cup {Append(q, x) : q \in shorter, x \in S}

TrackerRecords ==
    { [OriginMsTx |-> tx, DestAddress |-> GateTarget.DestAddress,
       DestAmount |-> GateTarget.DestAmount, Executed |-> e, Others |-> o] :
        tx \in TxIds, e \in BOOLEAN,
        o \in SeqsUpTo(SeqsUpTo(Signatories, MaxSignatories), MaxApprovals) }

TrackerInit ==
    /\ chainId = Polkadot
    /\ messages = {}
    /\ msTxAsMulti = {}
    /\ height = 0
    /\ pc = [c \in Calls |-> "idle"]
    /\ msg = [c \in Calls |-> NoMsg]
    /\ retryTimes = [c \in Calls |-> 0]
    /\ subRetry = [c \in Calls |-> 0]
    /\ result = [c \in Calls |-> NoResult]
    /\ submitted = {}
    /\ crashed = FALSE
    /\ fnIn \in TrackerRecords
    /\ fnOut = <<>>

ApplyScanRecord ==
    /\ fnOut = <<>>
    /\ fnOut' = <<scanRecord(fnIn)>>
    /\ UNCHANGED <<chainId, messages, msTxAsMulti, height, pc, msg, retryTimes,
                   subRetry, result, submitted, crashed, fnIn>>

TrackerNext == ApplyScanRecord

TrackerSpec == TrackerInit /\ [][TrackerNext]_vars

(***************************************************************************)
(* SerialSpec: a caller that makes its calls of ResolveMessage one after   *)
(* the other on a Polkadot writer: the next call is made when the one      *)
(* before has returned (checkRepeat is part of the call, the goroutine is  *)
(* not).                                                                   *)
(***************************************************************************)
\* 10^9 + 1 wrapped units: another remainder below oneDOT, the same actual amount
Amt1000M1 == <<59, 154, 202, 1>>

SerialMsgs ==
    { Message(1, Polkadot, Amt1000M, Rcp1),
      Message(2, Polkadot, Amt1000M, Rcp1),
      Message(3, Polkadot, Amt100M, Rcp1),
      Message(6, Kusama, Amt1000M, Rcp1),
      Message(9, Polkadot, Amt1000M1, Rcp1) }

\* ResolveMessage has returned (true or false) for call c
Returned(c) == pc[c] \notin {"idle", "checkRepeat", "gated"}

SerialResolve(c, m) ==
    /\ \A d \in Calls : d < c => Returned(d)
    /\ ResolveMessage(c, m)

SerialNext ==
    \/ \E c \in Calls, m \in SerialMsgs : SerialResolve(c, m)
    \/ \E c \in Calls : Step(c)
    \/ \E o \in OthersChoices : ListenerNew(Tx1, GateTarget, o)
    \/ ListenerExecuted(Tx1)
    \/ Tick

SerialSpec == GateInit /\ [][SerialNext]_vars

(***************************************************************************)
(* LiveSpec: SerialSpec with the progress the scheduling gives. The caller  *)
(* in checkRepeat and every goroutine keep running (each sleep ends), the   *)
(* chain keeps finalizing blocks, and a goroutine polling for its turn      *)
(* meets it when it recurs. Nothing says that a fetch inside submitTx ever  *)
(* succeeds, nor that the listener records anything.                        *)
(***************************************************************************)
Fairness ==
    /\ WF_vars(Tick)
    /\ \A c \in Calls :
          /\ WF_vars(checkRepeat(c) \/ NotMine(c) \/ Accept(c) \/ LoopTop(c)
                        \/ RedeemBuild(c) \/ SubmitFetchFail(c) \/ Finish(c)
                        \/ Again(c))
          /\ SF_vars(ScanFinished(c) \/ ScanApprove(c) \/ ScanInitiate(c))

LiveSpec == GateInit /\ [][SerialNext]_vars /\ Fairness

(***************************************************************************)
(* TurnSpec: the turn check of redeemTx as each of the relayers 0..N-1     *)
(* computes it for one deposit nonce at one finalized height. The sum      *)
(* currentRelayer + uint64(m.DepositNonce) is a uint64 and wraps at 2^64;  *)
(* a uint64 is kept here as four 16-bit limbs, most significant first.     *)
(***************************************************************************)
\* deposit nonces 0..MaxTurnNonce and the same number of nonces at the top of
\* the uint64 range are tried, at the heights 0..MaxTurnHeight
MaxTurnNonce == 7
MaxTurnHeight == 5

Limb == 65536

\* the uint64 of a number below Limb
U64(n) == <<0, 0, 0, n>>

\* x + r in uint64 arithmetic, for r below Limb: the carry out of the top limb
\* is lost
AddU64(x, r) ==
    LET s4 == x[4] + r
        s3 == x[3] + (s4 \div Limb)
        s2 == x[2] + (s3 \div Limb)
        s1 == x[1] + (s2 \div Limb)
    IN  <<s1 % Limb, s2 % Limb, s3 % Limb, s4 % Limb>>

\* x % n for a uint64 x and n below Limb
ModU64(x, n) ==
    LET r1 == x[1] % n
        r2 == (r1 * Limb + x[2]) % n
        r3 == (r2 * Limb + x[3]) % n
    IN  (r3 * Limb + x[4]) % n

\* processRound as the relayer of index r computes it for a deposit nonce
processRoundOf(r, nonce) ==
    ModU64(AddU64(nonce, r), TotalRelayers)

\* the relayers whose turn check passes for the nonce at finalized height h
onTurn(nonce, h) ==
    { r \in 0..(TotalRelayers - 1) : blockRound(h) = processRoundOf(r, nonce) }

TurnNonces ==
    { U64(n) : n \in 0..MaxTurnNonce }
        \cup { <<Limb - 1, Limb - 1, Limb - 1, Limb - 1 - n>> : n \in 0..MaxTurnNonce }

TurnInit ==
    /\ chainId = Polkadot
    /\ messages = {}
    /\ msTxAsMulti = {}
    /\ height \in 0..MaxTurnHeight
    /\ pc = [c \in Calls |-> "idle"]
    /\ msg = [c \in Calls |-> NoMsg]
    /\ retryTimes = [c \in Calls |-> 0]
    /\ subRetry = [c \in Calls |-> 0]
    /\ result = [c \in Calls |-> NoResult]
    /\ submitted = {}
    /\ crashed = FALSE
    /\ fnIn \in TurnNonces
    /\ fnOut = <<>>

\* every relayer reads the round of the finalized height and makes its check
ApplyTurnCheck ==
    /\ fnOut = <<>>
    /\ fnOut' = <<onTurn(fnIn, height)>>
    /\ UNCHANGED <<chainId, messages, msTxAsMulti, height, pc, msg, retryTimes,
                   subRetry, result, submitted, crashed, fnIn>>

TurnNext == ApplyTurnCheck

TurnSpec == TurnInit /\ [][TurnNext]_vars

(***************************************************************************)
(* Properties.                                                             *)
(***************************************************************************)
\* the calls goroutine c has made to submitTx
SubsOf(c) == { s \in submitted : s.call = c }

\* the goroutine of call c is running
Active(c) == pc[c] \in {"loop", "redeemTx", "waitRound", "submitTx", "returned"}

\* a result that is neither of the three sentinels: the OriginMsTx of an
\* executed record
IsExecutedTx(tx) == tx \notin {YesVoted, NotExecuted, AmountError}

\* C1: whenever a coordinator terminates, by whichever terminal condition
\* (Executed seen, AmountError, retries exhausted), its DestKey is not in the
\* in-flight map after that step.
C1_RemovedWhenCoordinatorTerminates ==
    [][\A c \in Calls :
          (pc[c] # "finished" /\ pc'[c] = "finished")
              => Dest(msg[c]) \notin messages']_vars

\* C2: the in-flight map never holds two DestKeys with the same recipient
\* bytes and amount bytes and different deposit nonces.
C2_RepeatGate ==
    \A d1 \in messages : \A d2 \in messages :
        (d1.DestAddress = d2.DestAddress /\ d1.DestAmount = d2.DestAmount)
            => d1.DepositNonce = d2.DepositNonce

\* C3: no two coordinator goroutines are running for the same DestKey.
C3_OneCoordinatorPerDestKey ==
    \A c1 \in Calls : \A c2 \in Calls :
        (Active(c1) /\ Active(c2) /\ Dest(msg[c1]) = Dest(msg[c2])) => c1 = c2

OnTurnStep(c) == pc[c] = "waitRound" /\ pc'[c] # "waitRound"

\* the records carrying the destination address and the actual amount of c's
\* message
Validated(c) ==
    { ms \in msTxAsMulti :
        /\ ms.DestAddress = BytesToHex(NewAccountID(msg[c].Payload[2]))
        /\ ms.DestAmount = IntString(actualAmount(msg[c])) }

\* an approval list names this relayer's public key
ContainsSelf(list) ==
    \E i \in 1..Len(list) :
        NewAddressFromHexAccountID(list[i]) = NewAddressFromAccountID(PublicKey)

OriginTimePoint(ms) == <<ms.OriginMsTx.BlockNumber, ms.OriginMsTx.MultiSignTxId>>

\* C5: when on its turn the records validated for a coordinator's message are
\* executed, the step makes no submission and redeemTx returns the executed
\* record's OriginMsTx as finished; a coordinator holding such a result is at
\* the return or has left its loop, stays there and submits nothing more.
C5_ExecutedTerminates ==
    [][\A c \in Calls :
          /\ (/\ OnTurnStep(c)
              /\ Validated(c) # {}
              /\ \A ms \in Validated(c) : ms.Executed)
                 => /\ pc'[c] = "returned"
                    /\ SubsOf(c)' = SubsOf(c)
                    /\ result'[c].isFinished
                    /\ \E ms \in Validated(c) : result'[c].currentTx = ms.OriginMsTx
          /\ (result[c].isFinished /\ IsExecutedTx(result[c].currentTx))
                 => /\ pc[c] \in {"returned", "finished"}
                    /\ pc'[c] \in {"returned", "finished"}
                    /\ SubsOf(c)' = SubsOf(c)
                    /\ result'[c] = result[c]]_vars

\* C5 happens: a coordinator that had submitted in an earlier attempt met an
\* executed record and has left its loop
C5_Witness ==
    \E c \in Calls :
        /\ pc[c] = "finished"
        /\ result[c].isFinished
        /\ IsExecutedTx(result[c].currentTx)
        /\ SubsOf(c) # {}

\* C6: a coordinator of a Polkadot or Kusama message whose actual amount is
\* negative never waits for a turn and never calls submitTx; its first call of
\* redeemTx returns (true, AmountError) and it leaves the loop on that attempt.
C6_NegativeAmountRejected ==
    \A c \in Calls :
        (/\ pc[c] # "idle"
         /\ msg[c].Destination \in {Polkadot, Kusama}
         /\ actualAmount(msg[c]) < 0)
            => /\ SubsOf(c) = {}
               /\ pc[c] \notin {"waitRound", "submitTx"}
               /\ pc[c] = "loop" => retryTimes[c] = BlockRetryLimit
               /\ pc[c] \in {"returned", "finished"}
                     => /\ result[c] = [isFinished |-> TRUE, currentTx |-> AmountError]
                        /\ retryTimes[c] = BlockRetryLimit - 1

\* C6 happens: the coordinator of a Kusama message with a negative actual
\* amount has terminated with AmountError
C6_Witness ==
    \E c \in Calls :
        /\ pc[c] = "finished"
        /\ msg[c].Destination = Kusama
        /\ actualAmount(msg[c]) < 0
        /\ result[c].currentTx = AmountError
        /\ Dest(msg[c]) \notin messages

\* C7: a message of a known destination whose actual amount is exactly zero is
\* never handed to submitTx.
C7_ZeroAmountRejected ==
    \A c \in Calls :
        (/\ msg[c].Destination \in {Polkadot, Kusama, ChainXBTC, ChainXPCX}
         /\ actualAmount(msg[c]) = 0)
            => SubsOf(c) = {}

\* C8: on the coordinator's turn, with no record validated for the message
\* (the table empty or not), an initiating call is submitted: empty timepoint
\* and weight 0; a submitted call has a timepoint or a weight only if a
\* validated, not executed record exists, and its timepoint is that record's.
C8_InitiateWithoutRecord ==
    [][\A c \in Calls :
          OnTurnStep(c) =>
            /\ pc'[c] = "submitTx" => Cardinality(SubsOf(c)' \ SubsOf(c)) = 1
            /\ Validated(c) = {} =>
                 /\ pc'[c] = "submitTx"
                 /\ \A s \in SubsOf(c)' \ SubsOf(c) :
                       s.timePoint = <<>> /\ s.maxWeight = 0
            /\ \A s \in SubsOf(c)' \ SubsOf(c) :
                 (s.timePoint # <<>> \/ s.maxWeight # 0) =>
                     \E ms \in Validated(c) :
                         ~ms.Executed /\ s.timePoint = OriginTimePoint(ms)]_vars

\* C8 happens: a coordinator initiated while the table held records of other
\* redeems only, and the same coordinator approved in another attempt
C8_Witness ==
    \E s \in submitted, t \in submitted :
        /\ s.call = t.call
        /\ s.timePoint = <<>> /\ s.maxWeight = 0
        /\ t.timePoint # <<>>
        /\ msTxAsMulti # {}

\* C9 as stated: for a record that is not executed, the tracker returns
\* YesVoted exactly when none of the approval lists of `others` contains this
\* relayer's key (also when `others` is empty).
C9_YesVotedWhenNoListContainsSelf ==
    (fnOut # <<>> /\ ~fnIn.Executed) =>
        ( fnOut[1].result = [isFinished |-> TRUE, currentTx |-> YesVoted]
          <=> \A i \in 1..Len(fnIn.Others) : ~ContainsSelf(fnIn.Others[i]) )

\* C9 amended: for a record that is not executed, the tracker returns YesVoted
\* exactly when at least one approval list of `others` does not contain this
\* relayer's key; when `others` is empty or every list contains the key it
\* returns not-finished and the scan takes the record's timepoint.
C9_YesVotedWhenSomeListLacksSelf ==
    (fnOut # <<>> /\ ~fnIn.Executed) =>
        IF \E i \in 1..Len(fnIn.Others) : ~ContainsSelf(fnIn.Others[i])
        THEN /\ fnOut[1].return
             /\ fnOut[1].result = [isFinished |-> TRUE, currentTx |-> YesVoted]
        ELSE /\ ~fnOut[1].return
             /\ fnOut[1].result = [isFinished |-> FALSE, currentTx |-> NotExecuted]
             /\ fnOut[1].timePoint = OriginTimePoint(fnIn)

\* C9 happens: one approval list contains this relayer's key, another does
\* not, and the tracker answered YesVoted
C9_Witness ==
    /\ fnOut # <<>>
    /\ ~fnIn.Executed
    /\ Len(fnIn.Others) = 2
    /\ ContainsSelf(fnIn.Others[1])
    /\ ~ContainsSelf(fnIn.Others[2])
    /\ fnOut[1].result.currentTx = YesVoted

Duplicates(c1, c2) ==
    /\ c1 < c2
    /\ pc[c2] # "idle"
    /\ msg[c1].Destination = chainId
    /\ msg[c2].Destination = chainId
    /\ msg[c1].Payload = msg[c2].Payload
    /\ msg[c1].DepositNonce # msg[c2].DepositNonce

\* the coordinator of call c has terminated on an executed record
TerminatedExecuted(c) ==
    /\ pc[c] = "finished"
    /\ result[c].isFinished
    /\ IsExecutedTx(result[c].currentTx)

\* C11: of two messages with different nonces and the same (recipient, amount)
\* resolved one after the other, the second waits in the repeat gate while the
\* first coordinator runs, and once the first has terminated on an executed
\* record the second coordinator submits nothing and, when it has terminated,
\* has terminated on an executed record.
C11_DuplicateSeesExecutedRecord ==
    \A c1 \in Calls : \A c2 \in Calls :
        Duplicates(c1, c2) =>
            /\ Active(c1) => pc[c2] = "checkRepeat"
            /\ TerminatedExecuted(c1) =>
                  /\ SubsOf(c2) = {}
                  /\ pc[c2] = "finished" => TerminatedExecuted(c2)

\* C12: a call of ResolveMessage for a message of another chain is never held
\* in the repeat gate, whatever the in-flight map holds, never inserts its
\* DestKey and never starts a coordinator.
C12_NotMineBeforeGate ==
    \A c \in Calls :
        (pc[c] # "idle" /\ msg[c].Destination # chainId) =>
            /\ ~(pc[c] = "checkRepeat" /\ isRepeat(msg[c]))
            /\ Dest(msg[c]) \notin messages
            /\ ~Active(c)
            /\ pc[c] # "finished"

\* C13: for every deposit nonce and every finalized height, exactly one of the
\* relayers 0..N-1 passes the turn check.
C13_ExactlyOneRelayerOnTurn ==
    fnOut # <<>> => Cardinality(fnOut[1]) = 1

\* call c2 is in checkRepeat with a message of the same recipient bytes and
\* amount bytes as that of call c1, under another deposit nonce
GatedBehind(c1, c2) ==
    /\ c1 # c2
    /\ pc[c2] = "checkRepeat"
    /\ msg[c1].Payload = msg[c2].Payload
    /\ msg[c1].DepositNonce # msg[c2].DepositNonce

\* C14: a call in checkRepeat behind a message of the same (recipient, amount)
\* and another nonce leaves the gate some time after that message's
\* coordinator has terminated, by whichever terminal condition (unless the
\* process has panicked meanwhile).
C14_GateReleasedAfterTermination ==
    \A c1 \in Calls : \A c2 \in Calls :
        (pc[c1] = "finished" /\ GatedBehind(c1, c2))
            ~> (pc[c2] # "checkRepeat" \/ crashed)

\* the calls of redeemTx the goroutine of call c has made so far
redeemCalls(c) ==
    IF pc[c] \in {"idle", "checkRepeat", "gated", "notMine"} THEN 0
    ELSE IF pc[c] = "finished" /\ retryTimes[c] = 0 THEN BlockRetryLimit - 1
    ELSE BlockRetryLimit - retryTimes[c]

\* C15: a coordinator's retry counter stays within 0..BlockRetryLimit, it makes
\* at most BlockRetryLimit calls of redeemTx, and, blocks being finalized and
\* its turn recurring, it eventually terminates (unless the process panics).
C15_CoordinatorTerminates ==
    /\ [](\A c \in Calls :
             /\ retryTimes[c] \in 0..BlockRetryLimit
             /\ redeemCalls(c) <= BlockRetryLimit)
    /\ \A c \in Calls : Active(c) ~> (pc[c] = "finished" \/ crashed)

\* C16: a call of submitTx makes at most BlockRetryLimit attempts: while it
\* runs, its retry counter, which starts at BlockRetryLimit and loses one per
\* failed attempt, is at least 1.
C16_SubmitTxBounded ==
    \A c \in Calls : pc[c] = "submitTx" => subRetry[c] >= 1

\* C17: a coordinator reading the round never brings the process down: while
\* a coordinator is in the turn loop the process has not panicked.
C17_GetRoundFailsSoft ==
    \A c \in Calls : pc[c] = "waitRound" => ~crashed

\* C18: the coordinator of a message whose destination is none of Polkadot,
\* Kusama, ChainXBTC and ChainXPCX never calls submitTx.
C18_UnknownDestinationNotSubmitted ==
    \A c \in Calls :
        (/\ pc[c] # "idle"
         /\ msg[c].Destination \notin {Polkadot, Kusama, ChainXBTC, ChainXPCX})
            => (SubsOf(c) = {} /\ pc[c] # "submitTx")

\* the step in which the goroutine of call c leaves its loop on AmountError
AmountErrorExit(c) ==
    /\ pc[c] = "returned"
    /\ result[c] = [isFinished |-> TRUE, currentTx |-> AmountError]
    /\ pc'[c] = "finished"

C20_NoTwoInFlightForOneTransfer ==
    \A c1 \in Calls : \A c2 \in Calls :
        (/\ Active(c1)
         /\ Active(c2)
         /\ msg[c1].DepositNonce # msg[c2].DepositNonce)
            => innerCall(msg[c1]) # innerCall(msg[c2])

====
